---- MODULE Spec2Model ----
(***************************************************************************)
(* A model of src/pagelet.js: one pooled Pagelet instance, the page it     *)
(* paints, the Substreams it opens, the Sandbox, the Pool and the asset    *)
(* loading phases it starts.                                               *)
(***************************************************************************)
EXTENDS Integers, Sequences, FiniteSets, TLC

\* ------------------------------------------------------------------ bounds

\* Operations (calls of the public API, inbound packets, asset completions)
\* performed on the instance in one behaviour.
MaxSteps == 5

\* ------------------------------------------------------------ value helpers

\* A nullable value: None is null/undefined, Some(v) holds v.
None == <<>>
Some(v) == <<v>>
Val(x) == x[1]

RECURSIVE SeqToSet(_)
SeqToSet(s) == IF s = <<>> THEN {} ELSE {Head(s)} \cup SeqToSet(Tail(s))

\* ---------------------------------------------------------------- the page

\* The placeholder elements of the page and the pagelet each one names in
\* its data-pagelet attribute, in document order.
Elems == <<"e1", "e2", "e3">>
ElemSet == SeqToSet(Elems)
ElemName(e) == IF e = "e3" THEN "side" ELSE "hero"

\* The first child of the data-pagelet-fragment node of a pagelet: the
\* nodeValue of a comment node, or None when it is not a comment.
FragmentComment(n) == IF n = "hero" THEN Some(<<"#", "v", "\\", "w", "#">>) ELSE None

\* The first child of a fragment node: none, an element, or a comment with
\* its nodeValue.
NoChild == [nodeType |-> 0]
ElementNode == [nodeType |-> 1]
CommentNode(value) == [nodeType |-> 8, nodeValue |-> value]

\* The first child of the data-pagelet-fragment node of a pagelet.
FirstChild(n) ==
  IF FragmentComment(n) = None THEN ElementNode ELSE CommentNode(Val(FragmentComment(n)))

\* What the server sent before configure: every placeholder is attached and
\* shows a loading indicator.
Loading == <<"l">>

\* ------------------------------------------------------------ configuration

\* timeout default of configure
DefaultTimeout == 25000

CfgFull ==
  [id |-> "p1", remove |-> FALSE, css |-> <<"a.css">>, js |-> <<"b.js">>,
   run |-> "boot()", rpc |-> <<"foo", "destroy">>, data |-> "d", timeout |-> 0]

CfgBare ==
  [id |-> "p2", remove |-> FALSE, css |-> <<>>, js |-> <<>>,
   run |-> "", rpc |-> <<>>, data |-> "", timeout |-> 500]

CfgRemove ==
  [id |-> "p3", remove |-> TRUE, css |-> <<>>, js |-> <<>>,
   run |-> "", rpc |-> <<"foo">>, data |-> "", timeout |-> 0]

\* A pagelet whose server declares a method with the name of a field.
CfgShadow ==
  [id |-> "p4", remove |-> FALSE, css |-> <<"a.css">>, js |-> <<>>,
   run |-> "", rpc |-> <<"substream">>, data |-> "", timeout |-> 0]

\* The (name, data) pairs configure is called with.
ConfigureInputs ==
  { <<"hero", CfgFull>>, <<"side", CfgBare>>, <<"hero", CfgRemove>> }

\* The names `method in Pagelet.prototype` is true of: the methods of the
\* prototype and what it inherits from EventEmitter.
Prototype ==
  { "constructor", "configure", "submit", "post", "processor", "initialise",
    "broadcast", "$", "render", "parse", "destroy",
    "on", "once", "emit", "listeners", "removeListener", "removeAllListeners",
    "addListener", "off", "setMaxListeners", "_events" }

\* ------------------------------------------------------------------- state

VARIABLES
  \* the instance's fields
  name, id, placeholders, substream, css, js, run, rpc, data, container, timeout,
  code,          \* this.code: read by initialise, assigned nowhere
  stubs,         \* own properties installed by configure: method -> closure (0: none)
  closures,      \* every rpcfactory closure created: [method, counter]
  listeners,     \* the instance's EventEmitter listeners, in registration order
  \* the page
  dom,           \* element -> [attached, html]
  domListeners,  \* element -> the submission listeners on it
  \* collaborators
  substreams,    \* every Substream opened: [name, ended, log]
  orchestrate,   \* envelopes written on the orchestration channel
  created,       \* Sandbox containers created
  killed,        \* container ids given to sandbox.kill
  executed,      \* code given to the Sandbox to execute
  released,      \* pipe.free calls
  phases,        \* asset loading phases started: [left, open, gen]
  \* what is observable
  emitted,       \* emissions on the pagelet's own scope
  pipeEmitted,   \* emissions on the page's scope
  calls,         \* stub invocations: [id, closure, gen, installed]
  invoked,       \* callbacks invoked: [call, args, packet, gen]
  thrown,        \* exceptions that left a handler
  \* history
  gen,           \* configure calls so far (the lifecycle)
  reconfigured,  \* configure calls made on a live instance
  inbox,         \* inbound packets processed so far, in order
  lastOp,        \* the last operation: [op, ...]
  steps,
  \* parse on its own
  text,          \* a template text
  special,       \* the characters the wrapping escapes
  firstChild,    \* the first child of the fragment node
  parsedView,    \* what parse returned
  stage          \* "idle", or "text", "wrapped", "parsed"

fields == <<name, id, placeholders, substream, css, js, run, rpc, data, container, timeout, code>>
pageletVars ==
  <<name, id, placeholders, substream, css, js, run, rpc, data, container, timeout,
    code, stubs, closures, listeners, dom, domListeners, substreams, orchestrate,
    created, killed, executed, released, phases, emitted, pipeEmitted, calls,
    invoked, thrown, gen, reconfigured, inbox, lastOp, steps>>
parseVars == <<text, special, firstChild, parsedView, stage>>
vars == <<pageletVars, parseVars>>

RpcNames == {"foo", "destroy", "substream"}

\* The constructor (Pagelet): orchestrate, stream, pipe and sandbox are set,
\* everything else is undefined.
Constructed ==
  /\ name = "" /\ id = "" /\ placeholders = None /\ substream = 0
  /\ css = <<>> /\ js = <<>> /\ run = "" /\ rpc = <<>> /\ data = ""
  /\ container = 0 /\ timeout = 0 /\ code = ""
  /\ stubs = [m \in RpcNames |-> 0]
  /\ closures = <<>> /\ listeners = <<>>
  /\ dom = [e \in ElemSet |-> [attached |-> TRUE, html |-> Loading]]
  /\ domListeners = [e \in ElemSet |-> {}]
  /\ substreams = <<>> /\ orchestrate = <<>>
  /\ created = 0 /\ killed = <<>> /\ executed = <<>> /\ released = 0
  /\ phases = <<>>
  /\ emitted = <<>> /\ pipeEmitted = <<>> /\ calls = <<>> /\ invoked = <<>>
  /\ thrown = 0
  /\ gen = 0 /\ reconfigured = 0 /\ inbox = <<>> /\ lastOp = [op |-> "new"] /\ steps = 0

\* A pagelet on a page: parse is only run by the completion of a loading
\* phase.
Init ==
  /\ Constructed
  /\ text = <<>> /\ special = {} /\ firstChild = NoChild /\ parsedView = None /\ stage = "idle"

\* ----------------------------------------------------------------- helpers

\* Pagelet.prototype.$: the elements of the document whose attribute equals
\* value, in document order. A detached element is not in the document.
Query(value, d) ==
  SelectSeq(Elems, LAMBDA e : ElemName(e) = value /\ d[e].attached)

\* collection.array: undefined becomes the empty array.
CollectionArray(x) == x

\* EventEmitter: the listeners of an event, in registration order.
Fired(ls, ev) == SelectSeq(ls, LAMBDA l : l.event = ev)

\* EventEmitter: what is left after emitting ev; a once listener is removed.
AfterEmit(ls, ev) == SelectSeq(ls, LAMBDA l : ~(l.event = ev /\ l.once))

\* Once as pagelet.on would register: the listener stays after it fired.
OnNotOnce(ls, ev, kind, ref) ==
  Append(ls, [event |-> ev, once |-> FALSE, kind |-> kind, ref |-> ref])

\* pagelet.once(event, fn)
Once(ls, ev, kind, ref) ==
  Append(ls, [event |-> ev, once |-> TRUE, kind |-> kind, ref |-> ref])

\* The destroy hook of submit: removes its submission listener from every
\* current placeholder.
RECURSIVE RunHooks(_, _, _)
RunHooks(dl, fired, ph) ==
  IF fired = <<>> THEN dl
  ELSE LET l == Head(fired)
           roots == IF ph = None THEN {} ELSE SeqToSet(Val(ph))
           dl2 == IF l.kind = "hook"
                  THEN [e \in ElemSet |-> IF e \in roots THEN dl[e] \ {l.ref} ELSE dl[e]]
                  ELSE dl
       IN RunHooks(dl2, Tail(fired), ph)

\* The callbacks among the fired listeners, invoked with args.
RECURSIVE RunCallbacks(_, _, _, _, _)
RunCallbacks(inv, fired, args, pkt, g) ==
  IF fired = <<>> THEN inv
  ELSE LET l == Head(fired)
           inv2 == IF l.kind = "cb"
                   THEN Append(inv, [call |-> l.ref, args |-> args, packet |-> pkt, gen |-> g])
                   ELSE inv
       IN RunCallbacks(inv2, Tail(fired), args, pkt, g)

\* The place of the next emission in the order of all emissions, on both
\* scopes.
At(em, pem) == Len(em) + Len(pem) + 1

\* One emission on the pagelet's own scope, as the log records it: via is
\* "emit" or "broadcast", the method that made it.
Emission(ev, args, by, p, g, via, at) ==
  [event |-> ev, args |-> args, by |-> by, phase |-> p, gen |-> g, via |-> via, at |-> at]

\* One emission on the page's scope: the event is prefixed with the name of
\* the pagelet and the instance is the first argument.
PageEmission(n, ev, args, by, p, g, at) ==
  [event |-> n \o "::" \o ev, pagelet |-> "this", args |-> args, by |-> by,
   phase |-> p, gen |-> g, at |-> at]

\* this.emit(ev, ...args) with the logs em and pem: the log of the
\* pagelet's scope after it.
Emit(em, pem, ev, args, by, p, g) ==
  Append(em, Emission(ev, args, by, p, g, "emit", At(em, pem)))

\* Broadcast emitting on the page's scope first.
BroadcastPageFirst(em, pem, n, ev, args, by, p, g) ==
  [local |-> Append(em, Emission(ev, args, by, p, g, "broadcast", At(em, pem) + 1)),
   page |-> Append(pem, PageEmission(n, ev, args, by, p, g, At(em, pem)))]

\* Pagelet.prototype.broadcast with the logs em and pem: both logs after it.
Broadcast(em, pem, n, ev, args, by, p, g) ==
  [local |-> Append(em, Emission(ev, args, by, p, g, "broadcast", At(em, pem))),
   page |-> Append(pem, PageEmission(n, ev, args, by, p, g, At(em, pem) + 1))]

\* The call id of rpcfactory.
CallId(method, counter) == method \o "#" \o ToString(counter)

RpcEvent(callId) == "rpc::" \o callId

\* ------------------------------------------------------------------- parse

\* String.prototype.substring(a, b) on a sequence of characters: both ends
\* are clamped to 0..length and swapped when a > b.
Substring(s, a, b) ==
  LET ca == IF a > Len(s) THEN Len(s) ELSE a
      cb == IF b < 0 THEN 0 ELSE IF b > Len(s) THEN Len(s) ELSE b
      lo == IF ca < cb THEN ca ELSE cb
      hi == IF ca < cb THEN cb ELSE ca
  IN SubSeq(s, lo + 1, hi)

\* The replace without the g flag: only the first backslash is treated.
RECURSIVE UnescapeFirst(_)
UnescapeFirst(s) ==
  IF s = <<>> THEN <<>>
  ELSE IF Head(s) = "\\"
       THEN Tail(s)
       ELSE <<Head(s)>> \o UnescapeFirst(Tail(s))

\* replace(/\\([\s\S]|$)/g, '$1'): a backslash and the character after it
\* become that character; a backslash at the end is dropped.
RECURSIVE Unescape(_)
Unescape(s) ==
  IF s = <<>> THEN <<>>
  ELSE IF Head(s) = "\\"
       THEN IF Len(s) = 1 THEN <<>> ELSE <<s[2]>> \o Unescape(SubSeq(s, 3, Len(s)))
       ELSE <<Head(s)>> \o Unescape(Tail(s))

\* comment.substring(1, comment.length - 1).replace(...)
ParseComment(comment) == Unescape(Substring(comment, 1, Len(comment) - 1))

\* The body of parse for the first child of the fragment node: None
\* (undefined) when there is no first child or it is not a comment.
ParseNode(child) ==
  IF child.nodeType = 0 \/ child.nodeType # 8
  THEN None
  ELSE Some(ParseComment(child.nodeValue))

\* Pagelet.prototype.parse
Parse(n) == ParseNode(FirstChild(n))

\* ------------------------------------------------------------------ render

\* !this.placeholders.length || !html: undefined and the empty string are falsy.
RenderSkips(ph, html) == Len(Val(ph)) = 0 \/ html = None \/ Val(html) = <<>>

\* Pagelet.prototype.render, for placeholders that are not null: the page
\* after it, and whether it painted (and so broadcast render).
RenderDom(d, ph, html) ==
  IF RenderSkips(ph, html) THEN d
  ELSE [e \in ElemSet |->
          IF e \in SeqToSet(Val(ph)) THEN [d[e] EXCEPT !.html = Val(html)] ELSE d[e]]

\* ----------------------------------------------------------------- destroy

\* The value of the identifier `remove` inside `function remove(root)`, the
\* callback destroy gives to collection.each: a named function expression
\* binds its own name in its body, so the name is the callback itself
\* (truthy) and not destroy's parameter.
RemoveInEach(remove) == TRUE

\* The page after destroy's loop over the placeholders.
DestroyDom(d, ph, remove) ==
  IF ph = None THEN d
  ELSE [e \in ElemSet |->
          IF e \in SeqToSet(Val(ph))
          THEN IF RemoveInEach(remove) /\ d[e].attached
               THEN [d[e] EXCEPT !.attached = FALSE]
               ELSE [d[e] EXCEPT !.html = <<>>]
          ELSE d[e]]

\* nuke: delete pagelet[method] for every method of this.rpc that is not a
\* name of the prototype.
Nuke(st, methods) ==
  [m \in DOMAIN st |->
     IF m \in SeqToSet(methods) /\ m \notin Prototype THEN 0 ELSE st[m]]

\* sandbox.kill(this.container.id), when there is a container.
Kill(k, c) == IF c # 0 THEN Append(k, c) ELSE k

\* this.substream.end({type: 'end'}), when there is a substream.
EndSubstream(ss, s) ==
  IF s # 0
  THEN [ss EXCEPT ![s] = [@ EXCEPT !.ended = TRUE,
                                   !.log = Append(@, [op |-> "end", env |-> [type |-> "end"]])]]
  ELSE ss

\* this.pipe.free(this)
Free(r) == r + 1

\* this.substream after nuke: `delete pagelet[method]` for a method named
\* substream deletes the property, whatever it holds, and leaves it
\* undefined.
DeleteField(s, methods) ==
  IF "substream" \in SeqToSet(methods) /\ "substream" \notin Prototype THEN 0 ELSE s

\* Pagelet.prototype.destroy, on an instance whose placeholders are ph.
\* It writes every variable it can change except the fields configure
\* assigns before it calls destroy. A this.substream that is a stub is
\* truthy and has no end method: calling it throws before the release.
DestroyBody(remove, ph, g) ==
  /\ emitted' = Emit(emitted, pipeEmitted, "destroy", <<>>, "destroy", 0, g)
  /\ listeners' = AfterEmit(listeners, "destroy")
  /\ domListeners' = RunHooks(domListeners, Fired(listeners, "destroy"), ph)
  /\ invoked' = RunCallbacks(invoked, Fired(listeners, "destroy"), <<>>, 0, g)
  /\ dom' = DestroyDom(dom, ph, remove)
  /\ stubs' = Nuke(stubs, rpc)
  /\ killed' = Kill(killed, container)
  /\ placeholders' = None
  /\ container' = 0
  /\ LET s == DeleteField(substream, rpc) IN
     /\ substream' = s
     /\ IF s < 0
        THEN /\ thrown' = thrown + 1
             /\ UNCHANGED <<substreams, released>>
        ELSE /\ substreams' = EndSubstream(substreams, s)
             /\ released' = Free(released)
             /\ UNCHANGED thrown

Destroy(remove) ==
  /\ steps < MaxSteps
  /\ DestroyBody(remove, placeholders, gen)
  /\ lastOp' = [op |-> "destroy", remove |-> remove]
  /\ steps' = steps + 1
  /\ UNCHANGED parseVars
  /\ UNCHANGED <<name, id, css, js, run, rpc, data, timeout, code,
                 closures, orchestrate, created, executed, phases, pipeEmitted,
                 calls, gen, reconfigured, inbox>>

\* --------------------------------------------------------------- configure

\* InstallStubs without the test `method in Pagelet.prototype`.
RECURSIVE InstallStubsUnguarded(_, _, _)
InstallStubsUnguarded(methods, st, cl) ==
  IF methods = <<>> THEN [stubs |-> st, closures |-> cl]
  ELSE InstallStubsUnguarded(Tail(methods),
                             [st EXCEPT ![Head(methods)] = Len(cl) + 1],
                             Append(cl, [method |-> Head(methods), counter |-> 0]))

\* The loop over this.rpc: a closure with its own counter for every method
\* that is not a name of the prototype, installed as an own property.
RECURSIVE InstallStubs(_, _, _)
InstallStubs(methods, st, cl) ==
  IF methods = <<>> THEN [stubs |-> st, closures |-> cl]
  ELSE LET m == Head(methods) IN
       IF m \in Prototype
       THEN InstallStubs(Tail(methods), st, cl)
       ELSE InstallStubs(Tail(methods),
                         [st EXCEPT ![m] = Len(cl) + 1],
                         Append(cl, [method |-> m, counter |-> 0]))

\* this.substream = this.stream.substream(this.name): the assignment
\* replaces a stub that an earlier configure left under that name.
AssignSubstream(st) == [st EXCEPT !["substream"] = 0]

\* this.substream after the loop over this.rpc, when the assignment gave it
\* the handle s: a stub named substream has replaced the handle. A stub is
\* held as the negated index of its closure.
SubstreamField(st, s) == IF st["substream"] # 0 THEN 0 - st["substream"] ELSE s

\* ConfigureRemoves when configure never looks at data.remove.
ConfigureIgnoresRemove(d) == FALSE

\* if (data.remove) return this.destroy(true)
ConfigureRemoves(d) == d.remove

\* async.each over css.concat(js): the phase configure starts.
StartPhase(ps, assets, g) == Append(ps, [left |-> Len(assets), open |-> TRUE, gen |-> g])

Configure(n, d) ==
  /\ steps < MaxSteps
  /\ steps' = steps + 1
  /\ UNCHANGED parseVars
  /\ gen' = gen + 1
  /\ reconfigured' = IF container # 0 THEN reconfigured + 1 ELSE reconfigured
  /\ name' = n
  /\ id' = d.id
  /\ lastOp' = [op |-> "configure", remove |-> d.remove]
  /\ LET ph == Some(Query(n, dom)) IN
     IF ConfigureRemoves(d)
     THEN /\ DestroyBody(TRUE, ph, gen + 1)
          /\ UNCHANGED <<css, js, run, rpc, data, timeout, code, closures,
                         orchestrate, created, executed, phases, pipeEmitted,
                         calls, inbox>>
     ELSE LET sid == gen + 1
              installed == InstallStubs(d.rpc, AssignSubstream(stubs), closures)
          IN
          /\ placeholders' = ph
             \* submit
          /\ domListeners' = [e \in ElemSet |->
                                IF e \in SeqToSet(Val(ph)) THEN domListeners[e] \cup {sid}
                                ELSE domListeners[e]]
          /\ listeners' = Once(listeners, "destroy", "hook", sid)
          /\ substream' = SubstreamField(installed.stubs, Len(substreams) + 1)
          /\ substreams' = Append(substreams, [name |-> n, ended |-> FALSE, log |-> <<>>])
          /\ orchestrate' = Append(orchestrate, [type |-> "pagelet", name |-> n])
          /\ css' = CollectionArray(d.css)
          /\ js' = CollectionArray(d.js)
          /\ run' = d.run
          /\ rpc' = d.rpc
          /\ data' = d.data
          /\ container' = created + 1
          /\ created' = created + 1
          /\ timeout' = IF d.timeout # 0 THEN d.timeout ELSE DefaultTimeout
          /\ stubs' = installed.stubs
          /\ closures' = installed.closures
          /\ LET b == Broadcast(emitted, pipeEmitted, n, "configured", <<d.data>>,
                                 "configure", 0, gen + 1)
             IN emitted' = b.local /\ pipeEmitted' = b.page
          /\ phases' = StartPhase(phases, d.css \o d.js, gen + 1)
          /\ UNCHANGED <<code, dom, killed, executed, released, calls, invoked,
                         thrown, inbox>>

\* --------------------------------------------------------------- rpc stubs

\* What a stub is called with before its callback.
CallArgs == { <<"x">> }

\* pagelet.substream.write(envelope)
Write(ss, s, env) ==
  [ss EXCEPT ![s] = [@ EXCEPT !.log = Append(@, [op |-> "write", env |-> env])]]

\* The counter of a closure after one more call: ++counter.
NextCounter(counter) == counter + 1

\* rpcfactory: one call of closure c, installed or obtained before destroy
\* deleted it. A pagelet.substream that is undefined or a stub has no write
\* method: the call throws after it registered the callback.
StubCall(c, args) ==
  /\ steps < MaxSteps
  /\ steps' = steps + 1
  /\ UNCHANGED parseVars
  /\ LET method == closures[c].method
         counter == NextCounter(closures[c].counter)
         callId == CallId(method, counter)
     IN /\ closures' = [closures EXCEPT ![c].counter = counter]
        /\ calls' = Append(calls, [id |-> callId, closure |-> c, gen |-> gen,
                                   installed |-> stubs[method] = c])
        /\ listeners' = Once(listeners, RpcEvent(callId), "cb", Len(calls) + 1)
        /\ IF substream > 0
           THEN /\ substreams' = Write(substreams, substream,
                                       [method |-> method, type |-> "rpc", args |-> args,
                                        id |-> callId])
                /\ UNCHANGED thrown
           ELSE /\ thrown' = thrown + 1
                /\ UNCHANGED substreams
        /\ lastOp' = [op |-> "call", closure |-> c, id |-> callId]
  /\ UNCHANGED <<fields, stubs, dom, domListeners, orchestrate, created, killed,
                 executed, released, phases, emitted, pipeEmitted, invoked,
                 gen, reconfigured, inbox>>

\* --------------------------------------------------------- inbound packets

Packet(type, pid, args, view) == [type |-> type, id |-> pid, args |-> args, view |-> view]

\* The packets a Substream delivers.
InboundPackets ==
  { Packet("rpc", "foo#1", <<"null", "42">>, <<>>),
    Packet("rpc", "foo#2", <<>>, <<>>),
    Packet("event", "", <<"rpc::foo#1", "x">>, <<>>),
    Packet("event", "", <<"destroy">>, <<>>),
    Packet("event", "", <<>>, <<>>),
    Packet("fragment", "", <<>>, <<"f">>),
    Packet("noop", "", <<>>, <<>>) }

\* this.emit(ev, ...args) when listeners of the instance may be registered
\* for ev: they run in registration order and the once listeners are removed.
LocalEmit(ev, args, by, pkt) ==
  /\ emitted' = Emit(emitted, pipeEmitted, ev, args, by, 0, gen)
  /\ listeners' = AfterEmit(listeners, ev)
  /\ invoked' = RunCallbacks(invoked, Fired(listeners, ev), args, pkt, gen)
  /\ domListeners' = RunHooks(domListeners, Fired(listeners, ev), placeholders)

\* case 'rpc'
ProcessRpc(packet, pkt) ==
  /\ LocalEmit(RpcEvent(packet.id), packet.args, "rpc", pkt)
  /\ UNCHANGED <<dom, pipeEmitted, thrown>>

\* case 'event' handing the args to broadcast.
ProcessEventBroadcasts(packet, pkt) ==
  /\ IF Len(packet.args) > 0
     THEN LET b == Broadcast(emitted, pipeEmitted, name, Head(packet.args),
                             Tail(packet.args), "event", 0, gen)
          IN emitted' = b.local /\ pipeEmitted' = b.page
     ELSE UNCHANGED <<emitted, pipeEmitted>>
  /\ UNCHANGED <<dom, thrown, listeners, invoked, domListeners>>

\* case 'event': args that are missing and args that are empty are both the
\* empty tuple.
ProcessEvent(packet, pkt) ==
  /\ IF Len(packet.args) > 0
     THEN LocalEmit(Head(packet.args), Tail(packet.args), "event", pkt)
     ELSE UNCHANGED <<emitted, listeners, invoked, domListeners>>
  /\ UNCHANGED <<dom, pipeEmitted, thrown>>

\* case 'fragment': render(packet.frag.view). Reading the length of
\* placeholders that are null throws.
ProcessFragment(packet, pkt) ==
  /\ IF placeholders = None
     THEN /\ thrown' = thrown + 1
          /\ UNCHANGED <<dom, emitted, pipeEmitted>>
     ELSE /\ dom' = RenderDom(dom, placeholders, Some(packet.view))
          /\ IF RenderSkips(placeholders, Some(packet.view))
             THEN UNCHANGED <<emitted, pipeEmitted>>
             ELSE LET b == Broadcast(emitted, pipeEmitted, name, "render",
                                     <<packet.view>>, "fragment", 0, gen)
                  IN emitted' = b.local /\ pipeEmitted' = b.page
          /\ UNCHANGED thrown
  /\ UNCHANGED <<listeners, invoked, domListeners>>

\* Processor with a default case that treats the packet as an rpc packet.
ProcessorDefaultsToRpc(packet, pkt) ==
  IF packet.type = "event" THEN ProcessEvent(packet, pkt)
  ELSE IF packet.type = "fragment" THEN ProcessFragment(packet, pkt)
  ELSE ProcessRpc(packet, pkt)

\* Pagelet.prototype.processor
Processor(packet, pkt) ==
  IF packet.type = "rpc" THEN ProcessRpc(packet, pkt)
  ELSE IF packet.type = "event" THEN ProcessEvent(packet, pkt)
  ELSE IF packet.type = "fragment" THEN ProcessFragment(packet, pkt)
  ELSE UNCHANGED <<dom, emitted, pipeEmitted, thrown, listeners, invoked, domListeners>>

\* The data listener configure puts on the Substream it opens: a Substream
\* that has not ended delivers a packet.
Deliver(s, packet) ==
  /\ steps < MaxSteps
  /\ ~substreams[s].ended
  /\ steps' = steps + 1
  /\ UNCHANGED parseVars
  /\ inbox' = Append(inbox, packet)
  /\ Processor(packet, Len(inbox) + 1)
  /\ lastOp' = [op |-> "packet", packet |-> packet, substream |-> s]
  /\ UNCHANGED <<fields, stubs, closures, substreams, orchestrate, created, killed,
                 executed, released, phases, calls, gen, reconfigured>>

\* ----------------------------------------------------------- asset loading

\* Pagelet.prototype.initialise after its broadcast: with client code it
\* calls this.prepare, which no prototype defines, and throws before the
\* Sandbox is given anything.
InitialiseThrows(c) == c # ""

\* DoneOk broadcasting render whatever render returned.
DoneOkAlwaysRenders(p) ==
  LET loaded == Emit(emitted, pipeEmitted, "loaded", <<>>, "done", p, gen) IN
  IF placeholders = None
  THEN /\ emitted' = loaded
       /\ thrown' = thrown + 1
       /\ UNCHANGED <<dom, pipeEmitted>>
  ELSE LET html == Parse(name)
           args == IF html = None THEN <<>> ELSE <<Val(html)>>
           rendered == Broadcast(loaded, pipeEmitted, name, "render", args, "done", p, gen)
           initialised == Broadcast(rendered.local, rendered.page, name, "initialise", <<>>,
                                    "done", p, gen)
       IN /\ dom' = RenderDom(dom, placeholders, html)
          /\ emitted' = initialised.local
          /\ pipeEmitted' = initialised.page
          /\ thrown' = IF InitialiseThrows(code) THEN thrown + 1 ELSE thrown

\* done() of configure, for phase p: loaded, render(parse()), initialise().
DoneOk(p) ==
  LET loaded == Emit(emitted, pipeEmitted, "loaded", <<>>, "done", p, gen) IN
  IF placeholders = None
  THEN /\ emitted' = loaded
       /\ thrown' = thrown + 1
       /\ UNCHANGED <<dom, pipeEmitted>>
  ELSE LET html == Parse(name)
           painted == ~RenderSkips(placeholders, html)
           args == IF painted THEN <<Val(html)>> ELSE <<>>
           rendered == IF painted
                       THEN Broadcast(loaded, pipeEmitted, name, "render", args, "done", p, gen)
                       ELSE [local |-> loaded, page |-> pipeEmitted]
           initialised == Broadcast(rendered.local, rendered.page, name, "initialise", <<>>,
                                    "done", p, gen)
       IN /\ dom' = RenderDom(dom, placeholders, html)
          /\ emitted' = initialised.local
          /\ pipeEmitted' = initialised.page
          /\ thrown' = IF InitialiseThrows(code) THEN thrown + 1 ELSE thrown

\* DoneErr without its return: the error event, then loaded.
DoneErrFallsThrough(p, err) ==
  /\ emitted' = Emit(Emit(emitted, pipeEmitted, "error", <<err>>, "done", p, gen),
                     pipeEmitted, "loaded", <<>>, "done", p, gen)
  /\ UNCHANGED <<dom, pipeEmitted, thrown>>

\* done(err) of configure: the error event and nothing else.
DoneErr(p, err) ==
  /\ emitted' = Emit(emitted, pipeEmitted, "error", <<err>>, "done", p, gen)
  /\ UNCHANGED <<dom, pipeEmitted, thrown>>

\* One asset of phase p has loaded; the last one completes the phase.
AssetLoaded(p) ==
  /\ steps < MaxSteps
  /\ phases[p].open /\ phases[p].left > 0
  /\ steps' = steps + 1
  /\ UNCHANGED parseVars
  /\ IF phases[p].left = 1
     THEN /\ phases' = [phases EXCEPT ![p].left = 0, ![p].open = FALSE]
          /\ DoneOk(p)
     ELSE /\ phases' = [phases EXCEPT ![p].left = @ - 1]
          /\ UNCHANGED <<dom, emitted, pipeEmitted, thrown>>
  /\ lastOp' = [op |-> "loaded", phase |-> p]
  /\ UNCHANGED <<fields, stubs, closures, listeners, domListeners, substreams,
                 orchestrate, created, killed, executed, released, calls, invoked,
                 gen, reconfigured, inbox>>

\* A phase over no asset completes.
EmptyPhaseDone(p) ==
  /\ steps < MaxSteps
  /\ phases[p].open /\ phases[p].left = 0
  /\ steps' = steps + 1
  /\ UNCHANGED parseVars
  /\ phases' = [phases EXCEPT ![p].open = FALSE]
  /\ DoneOk(p)
  /\ lastOp' = [op |-> "loaded", phase |-> p]
  /\ UNCHANGED <<fields, stubs, closures, listeners, domListeners, substreams,
                 orchestrate, created, killed, executed, released, calls, invoked,
                 gen, reconfigured, inbox>>

AssetErrors == {"failed", "timeout"}

\* One asset of phase p fails, or the phase times out: the phase ends with
\* that one error.
AssetFailed(p, err) ==
  /\ steps < MaxSteps
  /\ phases[p].open /\ phases[p].left > 0
  /\ steps' = steps + 1
  /\ UNCHANGED parseVars
  /\ phases' = [phases EXCEPT ![p].open = FALSE]
  /\ DoneErr(p, err)
  /\ lastOp' = [op |-> "failed", phase |-> p]
  /\ UNCHANGED <<fields, stubs, closures, listeners, domListeners, substreams,
                 orchestrate, created, killed, executed, released, calls, invoked,
                 gen, reconfigured, inbox>>

\* -------------------------------------------------------------------- post

\* (form.method || 'GET').toLowerCase()
FormType(method) ==
  IF method = "" \/ method = "GET" THEN "get"
  ELSE IF method = "POST" THEN "post" ELSE method

HasName(body, n) == \E i \in 1..Len(body) : body[i].name = n

\* The loop of post over form.elements, after the active element.
RECURSIVE PostBody(_, _, _)
PostBody(body, elements, active) ==
  IF elements = <<>> THEN body
  ELSE LET el == Head(elements)
           skip == \/ el.name = ""
                   \/ HasName(body, el.name)
                   \/ (active # None /\ Val(active).name = el.name)
       IN PostBody(IF skip THEN body ELSE Append(body, el), Tail(elements), active)

\* The body post sends: document.activeElement counts when it has a name.
PostData(form, activeElement) ==
  LET active == IF activeElement # None /\ Val(activeElement).name # ""
                THEN activeElement ELSE None
  IN PostBody(IF active # None THEN <<Val(active)>> ELSE <<>>, form.elements, active)

Field(n, v) == [name |-> n, value |-> v]

\* The forms posted and the active element of the document at that moment.
PostInputs ==
  { <<[method |-> "POST", elements |-> <<Field("q", "1"), Field("", "2"), Field("q", "3")>>],
      None>>,
    <<[method |-> "", elements |-> <<Field("go", "0"), Field("q", "1")>>],
      Some(Field("go", "1"))>> }

\* Pagelet.prototype.post. Without a substream the write throws.
Post(form, activeElement) ==
  /\ steps < MaxSteps
  /\ steps' = steps + 1
  /\ UNCHANGED parseVars
  /\ IF substream <= 0
     THEN /\ thrown' = thrown + 1
          /\ UNCHANGED substreams
     ELSE /\ substreams' = Write(substreams, substream,
                                 [type |-> FormType(form.method),
                                  body |-> PostData(form, activeElement)])
          /\ UNCHANGED thrown
  /\ lastOp' = [op |-> "post"]
  /\ UNCHANGED <<fields, stubs, closures, listeners, dom, domListeners, orchestrate,
                 created, killed, executed, released, phases, emitted, pipeEmitted,
                 calls, invoked, gen, reconfigured, inbox>>

\* ----------------------------------------------------------- specification

Next ==
  \/ \E in \in ConfigureInputs : Configure(in[1], in[2])
  \/ \E remove \in BOOLEAN : Destroy(remove)
  \/ \E c \in 1..Len(closures), args \in CallArgs : StubCall(c, args)
  \/ \E s \in 1..Len(substreams), packet \in InboundPackets : Deliver(s, packet)
  \/ \E p \in 1..Len(phases) : AssetLoaded(p)
  \/ \E p \in 1..Len(phases) : EmptyPhaseDone(p)
  \/ \E p \in 1..Len(phases), err \in AssetErrors : AssetFailed(p, err)
  \/ \E in \in PostInputs : Post(in[1], in[2])

Spec == Init /\ [][Next]_vars

\* ------------------------------------------------------- parse on its own

\* The longest template text.
MaxLen == 4

\* The characters of a template text: a plain one, one that may end a
\* comment, and the backslash.
Alphabet == {"a", "-", "\\"}
Texts == UNION { [1..n -> Alphabet] : n \in 0..MaxLen }

\* The sets of characters a wrapping may escape: the backslash is always one.
Specials == { sp \in SUBSET Alphabet : "\\" \in sp }

\* The character on each side of the text in the comment.
Marker == "#"

\* Escaping: a backslash before every character of sp.
RECURSIVE Escape(_, _)
Escape(t, sp) ==
  IF t = <<>> THEN <<>>
  ELSE (IF Head(t) \in sp THEN <<"\\", Head(t)>> ELSE <<Head(t)>>) \o Escape(Tail(t), sp)

\* Wrapping: the text between two marker characters.
Wrap(t) == <<Marker>> \o t \o <<Marker>>

InitParse ==
  /\ Constructed
  /\ text \in Texts /\ special \in Specials
  /\ firstChild = NoChild /\ parsedView = None /\ stage = "text"

\* The server puts the escaped text, wrapped, in a comment that is the
\* first child of the fragment node.
WrapFragment ==
  /\ stage = "text"
  /\ firstChild' = CommentNode(Wrap(Escape(text, special)))
  /\ stage' = "wrapped"
  /\ UNCHANGED <<pageletVars, text, special, parsedView>>

\* The fragment node has no first child, or one that is no comment.
BareFragment(child) ==
  /\ stage = "text"
  /\ firstChild' = child
  /\ stage' = "wrapped"
  /\ UNCHANGED <<pageletVars, text, special, parsedView>>

\* parse()
ParseFragment ==
  /\ stage = "wrapped"
  /\ parsedView' = ParseNode(firstChild)
  /\ stage' = "parsed"
  /\ UNCHANGED <<pageletVars, text, special, firstChild>>

NextParse ==
  \/ WrapFragment
  \/ \E child \in {NoChild, ElementNode} : BareFragment(child)
  \/ ParseFragment

SpecParse == InitParse /\ [][NextParse]_vars

\* ------------------------------------- a method with the name of a field

\* The (name, data) pairs of a page with a pagelet whose server declares
\* the method substream.
ShadowInputs == { <<"hero", CfgShadow>>, <<"side", CfgBare>> }

NextShadow ==
  \/ \E in \in ShadowInputs : Configure(in[1], in[2])
  \/ \E remove \in BOOLEAN : Destroy(remove)
  \/ \E c \in 1..Len(closures), args \in CallArgs : StubCall(c, args)
  \/ \E s \in 1..Len(substreams), packet \in InboundPackets : Deliver(s, packet)
  \/ \E p \in 1..Len(phases) : AssetLoaded(p)
  \/ \E p \in 1..Len(phases) : EmptyPhaseDone(p)
  \/ \E p \in 1..Len(phases), err \in AssetErrors : AssetFailed(p, err)
  \/ \E in \in PostInputs : Post(in[1], in[2])

SpecShadow == Init /\ [][NextShadow]_vars

\* ------------------------------------------------------------------ claims

\* The instance is live: configured and not destroyed since (configure
\* creates the container, destroy nulls it).
Live == container # 0

\* configure was only ever called on an instance that was not live.
ProperUse == reconfigured = 0

\* The calls whose callback has been invoked.
InvokedCalls == { invoked[i].call : i \in DOMAIN invoked }

\* C1: destroy is idempotent: a destroy that directly follows a destroy
\* calls sandbox.kill for no container and releases the instance to the Pool
\* no second time.
C1_DestroyIdempotent ==
  [][(ProperUse /\ gen > 0 /\ lastOp.op = "destroy" /\ lastOp'.op = "destroy" /\ steps' = steps + 1)
       => (killed' = killed /\ released' = released)]_vars

\* C2: configure is valid only from Created: a configure of a live instance
\* opens no Substream, writes no registration envelope, creates no Sandbox
\* container and starts no asset loading phase.
C2_ConfigureOnce ==
  [][(Live /\ gen' = gen + 1)
       => /\ Len(substreams') = Len(substreams)
          /\ orchestrate' = orchestrate
          /\ created' = created
          /\ Len(phases') = Len(phases)]_vars

\* The callbacks inbound packet k invoked.
InvokedBy(k) == { i \in DOMAIN invoked : invoked[i].packet = k }

\* C3: RPC responses are one-shot. A callback an rpc envelope invokes was
\* registered under the envelope's id and gets the envelope's args; when an
\* rpc envelope has been processed every callback registered under its id
\* has been invoked and none is left pending under that id, so a later
\* envelope with the same id invokes no handler; no callback is invoked
\* twice; and over the stub calls and inbound packets of a configuration an
\* rpc envelope invokes at most one callback.
C3_RpcOneShot ==
  /\ \A i \in DOMAIN invoked :
       (invoked[i].packet # 0 /\ inbox[invoked[i].packet].type = "rpc")
         => /\ calls[invoked[i].call].id = inbox[invoked[i].packet].id
            /\ invoked[i].args = inbox[invoked[i].packet].args
  /\ \A i, j \in DOMAIN invoked : invoked[i].call = invoked[j].call => i = j
  /\ (lastOp.op = "packet" /\ lastOp.packet.type = "rpc")
       => /\ \A c \in DOMAIN calls : calls[c].id = lastOp.packet.id => c \in InvokedCalls
          /\ Fired(listeners, RpcEvent(lastOp.packet.id)) = <<>>
  /\ gen <= 1 =>
       \A k \in DOMAIN inbox : inbox[k].type = "rpc" => Cardinality(InvokedBy(k)) <= 1

\* C3 witness: an rpc envelope invoked the callback of its id with its args
\* and the envelope just processed, with the same id, invoked nothing.
C3_Witness ==
  /\ lastOp.op = "packet" /\ lastOp.packet.type = "rpc"
  /\ \E k \in 1..(Len(inbox) - 1) :
       /\ inbox[k] = lastOp.packet
       /\ \E i \in InvokedBy(k) : invoked[i].args = <<"null", "42">>
  /\ InvokedBy(Len(inbox)) = {}

\* A call made through the stub as installed on the instance, not through
\* a reference kept from before destroy deleted it.
ThroughStub(i) == calls[i].installed

\* C4: no call id is generated twice in the lifetime of the instance,
\* destroy and a new configure included.
C4_CallIdsUnique ==
  ProperUse =>
    \A i, j \in DOMAIN calls :
       (ThroughStub(i) /\ ThroughStub(j) /\ calls[i].id = calls[j].id) => i = j

\* C5: an rpc envelope only ever invokes a callback of the lifecycle it
\* arrives in: a call pending at destroy is never answered in a later
\* lifecycle of the instance.
C5_NoLeakAcrossReuse ==
  ProperUse =>
    \A i \in DOMAIN invoked :
       (/\ ThroughStub(invoked[i].call)
        /\ invoked[i].packet # 0
        /\ inbox[invoked[i].packet].type = "rpc")
         => invoked[i].gen = calls[invoked[i].call].gen

\* The emissions of the completion of phase p.
EmittedByPhase(p) == { i \in DOMAIN emitted : emitted[i].by = "done" /\ emitted[i].phase = p }
FailedPhases == { p \in DOMAIN phases : \E i \in EmittedByPhase(p) : emitted[i].event = "error" }

\* C6 as stated: in a lifecycle with a failed loading phase no loaded,
\* render or initialise event is emitted.
C6_NoRenderInLifecycle ==
  \A p \in FailedPhases : \A j \in DOMAIN emitted :
     emitted[j].gen = phases[p].gen => emitted[j].event \notin {"loaded", "render", "initialise"}

\* C6 amended: the completion of a failed loading phase emits exactly one
\* error event and nothing else, on neither scope: no loaded, render or
\* initialise event comes from it and it paints no initial fragment.
C6_FailedPhaseOnlyErrors ==
  \A p \in FailedPhases :
     /\ Cardinality(EmittedByPhase(p)) = 1
     /\ \A j \in DOMAIN pipeEmitted : ~(pipeEmitted[j].by = "done" /\ pipeEmitted[j].phase = p)
     /\ ~phases[p].open

\* C6 witness: of the two assets of a phase one has loaded and the other
\* has just failed.
C6_Witness ==
  /\ lastOp.op = "failed"
  /\ lastOp.phase \in FailedPhases
  /\ phases[lastOp.phase].left = 1

\* C7: a configure with remove set opens no Substream, writes no
\* registration envelope, installs no stub, creates no container, starts no
\* asset load, leaves the instance destroyed with its placeholders detached
\* from the page, and releases it to the Pool.
C7_RemoveShortCircuits ==
  [][(lastOp'.op = "configure" /\ lastOp'.remove /\ gen' = gen + 1)
       => /\ Len(substreams') = Len(substreams)
          /\ substream' = substream
          /\ orchestrate' = orchestrate
          /\ closures' = closures
          /\ \A m \in DOMAIN stubs : stubs'[m] \in {0, stubs[m]}
          /\ created' = created
          /\ phases' = phases
          /\ placeholders' = None /\ container' = 0
          /\ \A e \in SeqToSet(Query(name', dom)) : ~dom'[e].attached
          /\ released' = released + 1]_vars

\* C7 witness: an instance that was used, destroyed and released is
\* configured with remove set.
C7_Witness ==
  /\ lastOp.op = "configure" /\ lastOp.remove
  /\ gen = 2 /\ released = 2
  /\ Len(substreams) = 1 /\ Len(phases) = 1

\* C8: a destroy without the remove flag leaves every placeholder attached
\* and only clears its content.
C8_PlainDestroyKeepsPlaceholder ==
  [][(lastOp'.op = "destroy" /\ ~lastOp'.remove /\ steps' = steps + 1 /\ placeholders # None)
       => \A e \in SeqToSet(Val(placeholders)) :
             dom'[e].attached = dom[e].attached /\ dom'[e].html = <<>>]_vars

\* C9: once the end envelope is sent on a Substream, a destroy, a call of
\* a stub and a post write nothing more on it.
C9_NothingAfterEnd ==
  [][(ProperUse /\ lastOp'.op \in {"destroy", "call", "post"} /\ steps' = steps + 1)
       => \A s \in DOMAIN substreams :
             substreams[s].ended => substreams'[s].log = substreams[s].log]_vars

\* C10: when the pagelet has just entered Initialised and its configuration
\* supplied client code, the Sandbox has executed that code.
C10_CodeIsExecuted ==
  (/\ ProperUse
   /\ lastOp.op = "loaded"
   /\ emitted # <<>> /\ emitted[Len(emitted)].event = "initialise"
   /\ run # "")
    => (executed # <<>> /\ executed[Len(executed)] = run)

\* A step that is a configure without remove, and one that is a destroy.
ConfigureStep == lastOp'.op = "configure" /\ ~lastOp'.remove /\ gen' = gen + 1
DestroyStep == lastOp'.op = "destroy" /\ steps' = steps + 1

\* C11: a declared method name that is a name of the prototype is skipped
\* silently: configure installs a new stub for every other declared name and
\* none for it, nothing throws, no own property ever shadows a name of the
\* prototype, and destroy removes stubs of declared names only.
C11_ReservedNamesSkipped ==
  [][/\ \A m \in DOMAIN stubs : m \in Prototype => stubs'[m] = 0
     /\ ConfigureStep =>
          /\ \A m \in SeqToSet(rpc') \cap DOMAIN stubs :
                m \notin Prototype => stubs'[m] > Len(closures)
          /\ thrown' = thrown
     /\ DestroyStep =>
          /\ \A m \in DOMAIN stubs :
                stubs'[m] # stubs[m]
                  => (m \in SeqToSet(rpc) /\ m \notin Prototype /\ stubs'[m] = 0)
          /\ thrown' = thrown]_vars

\* C11 witness: configured with the names foo and destroy, the instance has
\* a stub foo and no own property destroy.
C11_Witness ==
  /\ lastOp.op = "configure" /\ ~lastOp.remove
  /\ rpc = <<"foo", "destroy">>
  /\ stubs["foo"] # 0 /\ stubs["destroy"] = 0
  /\ thrown = 0

\* The emissions a step adds to the log of each scope.
NewLocal == (Len(emitted) + 1)..Len(emitted')
NewPage == (Len(pipeEmitted) + 1)..Len(pipeEmitted')

\* C12: every broadcast emits its event with its args on the pagelet's own
\* scope and next, on the page's scope, the event prefixed with the
\* pagelet's name and "::" with the instance and then the same args: once
\* on each scope, the pagelet's scope first.
C12_BroadcastBothScopes ==
  [][/\ \A i \in NewLocal :
          emitted'[i].via = "broadcast" =>
            \E j \in NewPage :
               /\ pipeEmitted'[j].at = emitted'[i].at + 1
               /\ pipeEmitted'[j].event = name' \o "::" \o emitted'[i].event
               /\ pipeEmitted'[j].pagelet = "this"
               /\ pipeEmitted'[j].args = emitted'[i].args
     /\ \A j \in NewPage :
          \E i \in NewLocal :
             emitted'[i].via = "broadcast" /\ pipeEmitted'[j].at = emitted'[i].at + 1
     /\ \A i, j \in NewLocal : emitted'[i].at = emitted'[j].at => i = j
     /\ \A i, j \in NewPage : pipeEmitted'[i].at = pipeEmitted'[j].at => i = j]_vars

\* C12 witness: for the pagelet hero, render was broadcast with the parsed
\* fragment: render on its scope, then hero::render on the page's.
C12_Witness ==
  \E i \in DOMAIN emitted, j \in DOMAIN pipeEmitted :
     /\ emitted[i].event = "render" /\ emitted[i].via = "broadcast"
     /\ emitted[i].args = << <<"v", "w">> >>
     /\ pipeEmitted[j].event = "hero::render"
     /\ pipeEmitted[j].args = emitted[i].args
     /\ pipeEmitted[j].at = emitted[i].at + 1

\* A step in which the Substream delivers a packet of the given type.
PacketStep(type) ==
  lastOp'.op = "packet" /\ steps' = steps + 1 /\ lastOp'.packet.type = type

\* C13: an event packet is emitted on the pagelet's own scope only: with
\* args, the first of them is emitted there as the event with the rest as
\* its arguments, once, by emit and not by broadcast; without args nothing
\* is emitted; in both cases nothing is emitted on the page's scope.
C13_EventLocalOnly ==
  [][PacketStep("event") =>
       /\ pipeEmitted' = pipeEmitted
       /\ IF Len(lastOp'.packet.args) > 0
          THEN /\ Len(emitted') = Len(emitted) + 1
               /\ SubSeq(emitted', 1, Len(emitted)) = emitted
               /\ emitted'[Len(emitted')].event = Head(lastOp'.packet.args)
               /\ emitted'[Len(emitted')].args = Tail(lastOp'.packet.args)
               /\ emitted'[Len(emitted')].via = "emit"
          ELSE emitted' = emitted]_vars

\* C13 witness: of two event packets delivered to a configured pagelet the
\* one with args was emitted on its scope with its payload, the one without
\* was not, and the page's scope saw neither.
C13_Witness ==
  /\ gen > 0
  /\ \E i, j \in DOMAIN inbox :
        /\ inbox[i].type = "event" /\ inbox[i].args = <<"rpc::foo#1", "x">>
        /\ inbox[j].type = "event" /\ inbox[j].args = <<>>
  /\ \E k \in DOMAIN emitted :
        emitted[k].by = "event" /\ emitted[k].event = "rpc::foo#1" /\ emitted[k].args = <<"x">>
  /\ Cardinality({k \in DOMAIN emitted : emitted[k].by = "event"}) = 1
  /\ \A k \in DOMAIN pipeEmitted : pipeEmitted[k].by # "event"

\* C14: a packet whose type is not rpc, event or fragment is ignored: it
\* emits nothing on either scope, writes nothing on a Substream, invokes no
\* callback, throws nothing, and leaves the fields of the instance, its
\* stubs, its pending callbacks, its asset phases and the page as they were.
C14_UnknownKindIgnored ==
  [][(lastOp'.op = "packet" /\ steps' = steps + 1
        /\ lastOp'.packet.type \notin {"rpc", "event", "fragment"})
       => UNCHANGED <<fields, stubs, closures, listeners, dom, domListeners, substreams,
                      orchestrate, created, killed, executed, released, phases, emitted,
                      pipeEmitted, calls, invoked, thrown, gen, reconfigured>>]_vars

\* C14 witness: a packet of an unknown type was delivered to a live pagelet
\* with an RPC callback pending.
C14_Witness ==
  /\ Live
  /\ lastOp.op = "packet" /\ lastOp.packet.type = "noop"
  /\ \E i \in DOMAIN listeners : listeners[i].kind = "cb"

\* The emissions of the completion of phase p with the given event.
DoneEvents(p, ev) == { i \in EmittedByPhase(p) : emitted[i].event = ev }

\* C15 as stated: every initialise that the completion of a loading phase
\* broadcasts is preceded by a render broadcast of the same completion.
C15_RenderBeforeInitialise ==
  ProperUse =>
    \A p \in DOMAIN phases : \A i \in DoneEvents(p, "initialise") :
       \E r \in DoneEvents(p, "render") : r < i

\* The pagelet has a placeholder and its fragment node holds a comment that
\* parses to a text that is not empty.
HasInitialView ==
  /\ placeholders # None
  /\ Len(Val(placeholders)) > 0
  /\ FragmentComment(name) # None
  /\ ParseComment(Val(FragmentComment(name))) # <<>>

\* C15 amended: the completion of a loading phase broadcasts initialise at
\* most once, after the loaded event of the same completion and after the
\* configured broadcast of the configure that started the phase; a render
\* broadcast of the parsed fragment comes between loaded and initialise
\* exactly when the pagelet has a placeholder and the parsed fragment is not
\* empty, and otherwise initialise is broadcast with no render before it.
C15_InitialiseAfterLoaded ==
  [][(lastOp'.op = "loaded" /\ steps' = steps + 1) =>
       LET p == lastOp'.phase
           New(ev) == { i \in NewLocal : /\ emitted'[i].by = "done"
                                         /\ emitted'[i].phase = p
                                         /\ emitted'[i].event = ev }
       IN /\ Cardinality(New("initialise")) <= 1
          /\ \A i \in New("initialise") :
               /\ emitted'[i].via = "broadcast"
               /\ \E l \in New("loaded") : l < i
               /\ \E c \in DOMAIN emitted :
                     /\ emitted[c].event = "configured"
                     /\ emitted[c].via = "broadcast"
                     /\ emitted[c].gen = phases[p].gen
               /\ HasInitialView <=> New("render") # {}
               /\ \A r \in New("render") :
                     /\ \E l \in New("loaded") : l < r
                     /\ r < i
                     /\ emitted'[r].via = "broadcast"
                     /\ FragmentComment(name) # None
                     /\ emitted'[r].args = <<ParseComment(Val(FragmentComment(name)))>>]_vars

\* C15 witness: the loading phase of a pagelet whose fragment node holds no
\* comment has completed: initialise was broadcast after loaded and no
\* render was.
C15_Witness ==
  /\ ProperUse
  /\ lastOp.op = "loaded"
  /\ placeholders # None /\ Len(Val(placeholders)) > 0
  /\ FragmentComment(name) = None
  /\ DoneEvents(lastOp.phase, "loaded") # {}
  /\ DoneEvents(lastOp.phase, "initialise") # {}
  /\ DoneEvents(lastOp.phase, "render") = {}

\* C16: when destroy has handed the instance to the Pool the instance is
\* blank: its placeholders, its container and its Substream are null and no
\* stub is installed on it.
C16_BlankAtHandOff ==
  (ProperUse /\ gen > 0 /\ lastOp.op = "destroy") =>
     /\ placeholders = None
     /\ container = 0
     /\ substream = 0
     /\ \A m \in DOMAIN stubs : stubs[m] = 0

\* C18: after destroy, the completion of a loading phase that was in flight,
\* with success or with failure, emits nothing on either scope, paints
\* nothing and throws nothing.
C18_NothingAfterDestroy ==
  [][(ProperUse /\ gen > 0 /\ ~Live
        /\ lastOp'.op \in {"loaded", "failed"} /\ steps' = steps + 1)
       => /\ emitted' = emitted
          /\ pipeEmitted' = pipeEmitted
          /\ dom' = dom
          /\ thrown' = thrown]_vars

\* C19: a pending callback of an RPC call is only ever invoked by an rpc
\* packet with the id of the call: no event packet and no fragment packet
\* invokes a callback or removes a pending one, and no event packet runs a
\* destroy hook.
C19_OnlyRpcFiresCallbacks ==
  [][(ProperUse /\ lastOp'.op = "packet" /\ steps' = steps + 1)
       => /\ lastOp'.packet.type # "rpc"
            => /\ invoked' = invoked
               /\ listeners' = listeners
               /\ domListeners' = domListeners
          /\ \A i \in (Len(invoked) + 1)..Len(invoked') :
               /\ lastOp'.packet.type = "rpc"
               /\ calls[invoked'[i].call].id = lastOp'.packet.id]_vars

\* C17: parse undoes the wrapping: for every text over the alphabet, parse
\* of the comment that holds the escaped text between two marker characters
\* returns the text; parse of a fragment node whose first child is no
\* comment returns no view.
C17_ParseUndoesWrapping ==
  stage = "parsed" =>
    IF firstChild.nodeType = 8
    THEN /\ firstChild.nodeValue = Wrap(Escape(text, special))
         /\ parsedView = Some(text)
    ELSE parsedView = None

\* C17 witness: a text with a backslash, a dash and a plain character was
\* escaped, wrapped and parsed back.
C17_Witness ==
  /\ stage = "parsed"
  /\ firstChild.nodeType = 8
  /\ text = <<"\\", "-", "a", "\\">>
  /\ special = {"\\", "-"}
  /\ parsedView = Some(text)

\* C20: installing and removing stubs leaves the fields of the instance
\* alone, whatever the declared methods are called: after configure
\* this.substream is the Substream that configure opened, and a destroy of
\* the live instance ends that Substream and releases the instance.
C20_StubsLeaveFields ==
  [][ProperUse =>
       /\ ConfigureStep =>
            /\ Len(substreams') = Len(substreams) + 1
            /\ substream' = Len(substreams')
       /\ (DestroyStep /\ Live) =>
            /\ substreams'[Len(substreams)].ended
            /\ released' = released + 1]_vars

====
